---------------------------- MODULE Spec2Model ----------------------------
(***************************************************************************)
(* Model of the SongDown YouTube-to-MP3 downloader.                        *)
(*                                                                         *)
(*   src/streamlit_app.py : safe_filename, ffprobe_recognizes_mp3,         *)
(*                          download_and_validate, main (interactive UI)   *)
(*   src/yt_to_mp3.py     : parse_args, download_mp3, main (CLI)           *)
(*                                                                         *)
(* File names are sequences of one-character strings, so that sanitizing,  *)
(* formatting of the collision suffix and sorting are computed as the code *)
(* computes them.  A file's content is the pair <<producer, original       *)
(* name>>; producer 0 is "present before any invocation".                  *)
(***************************************************************************)
EXTENDS Integers, Sequences, FiniteSets, TLC

(***************************************************************************)
(* Bounds of the model.                                                    *)
(***************************************************************************)
\* largest number of files one call of the external downloader produces
MaxFiles == 3
\* longest raw title handed to the sanitizer in SpecSanitize
MaxLen == 3

\* default of safe_filename's max_length parameter
DefaultMaxLength == 150

(***************************************************************************)
(* Characters and strings.                                                 *)
(***************************************************************************)
\* the characters removed by re.sub(r"[\\/*?:\"<>|]", "", name)
Forbidden == {"\\", "/", "*", "?", ":", "\"", "<", ">", "|"}

\* characters matched by \s and removed by str.strip()
Whitespace == {" ", "\t"}

\* code points of the characters that occur in file names of the model
CharCode ==
  [c \in {"\t", " ", "(", ")", ".", "/", "1", "2", "3", "4", "5", "6", "7",
          "8", "9", "0", ":", "S", "a", "m", "p", "r", "t"} |->
     CASE c = "\t" -> 9   [] c = " " -> 32  [] c = "(" -> 40  [] c = ")" -> 41
       [] c = "." -> 46   [] c = "/" -> 47  [] c = "0" -> 48  [] c = "1" -> 49
       [] c = "2" -> 50   [] c = "3" -> 51  [] c = "4" -> 52  [] c = "5" -> 53
       [] c = "6" -> 54   [] c = "7" -> 55  [] c = "8" -> 56  [] c = "9" -> 57
       [] c = ":" -> 58   [] c = "S" -> 83  [] c = "a" -> 97  [] c = "m" -> 109
       [] c = "p" -> 112  [] c = "r" -> 114 [] c = "t" -> 116]

\* the suffix ".mp3"
MP3 == <<".", "m", "p", "3">>

RECURSIVE DropLeadingWs(_)
\* s without its leading whitespace (left half of str.strip())
DropLeadingWs(s) ==
  IF s # <<>> /\ Head(s) \in Whitespace THEN DropLeadingWs(Tail(s)) ELSE s

RECURSIVE DropTrailingWs(_)
\* s without its trailing whitespace (right half of str.strip())
DropTrailingWs(s) ==
  IF s # <<>> /\ s[Len(s)] \in Whitespace
    THEN DropTrailingWs(SubSeq(s, 1, Len(s) - 1))
    ELSE s

\* str.strip()
Strip(s) == DropTrailingWs(DropLeadingWs(s))

\* re.sub(r"[\\/*?:\"<>|]", "", name)
RemoveForbidden(s) == SelectSeq(s, LAMBDA c : c \notin Forbidden)

RECURSIVE CollapseWs(_)
\* re.sub(r"\s+", " ", name): every maximal run of whitespace becomes one space
CollapseWs(s) ==
  IF s = <<>> THEN <<>>
  ELSE IF Head(s) \in Whitespace
         THEN <<" ">> \o CollapseWs(DropLeadingWs(Tail(s)))
         ELSE <<Head(s)>> \o CollapseWs(Tail(s))

\* name[:max_length] when len(name) > max_length
Truncate(s, max_length) ==
  IF Len(s) > max_length THEN SubSeq(s, 1, max_length) ELSE s

\* safe_filename(name, max_length)
safe_filename(name, max_length) ==
  Truncate(Strip(CollapseWs(RemoveForbidden(name))), max_length)

RECURSIVE Digits(_)
\* str(i) for i >= 0, as the f-string formats the counter
Digits(n) ==
  LET d == <<"0", "1", "2", "3", "4", "5", "6", "7", "8", "9">>[(n % 10) + 1]
  IN  IF n < 10 THEN <<d>> ELSE Digits(n \div 10) \o <<d>>

RECURSIVE StrLess(_, _)
\* a < b for Python strings: lexicographic by code point
StrLess(a, b) ==
  IF b = <<>> THEN FALSE
  ELSE IF a = <<>> THEN TRUE
  ELSE IF CharCode[Head(a)] # CharCode[Head(b)]
         THEN CharCode[Head(a)] < CharCode[Head(b)]
         ELSE StrLess(Tail(a), Tail(b))

RECURSIVE Sorted(_)
\* sorted(S) for a set of names
Sorted(S) ==
  IF S = {} THEN <<>>
  ELSE LET m == CHOOSE x \in S : \A y \in S \ {x} : StrLess(x, y)
       IN  <<m>> \o Sorted(S \ {m})

\* whether a name matches the glob "*.mp3"
IsMp3(name) ==
  Len(name) >= 4 /\ SubSeq(name, Len(name) - 3, Len(name)) = MP3

\* Path.stem of a name with a suffix: the name without its last suffix
Stem(name) ==
  LET dots == {k \in 2..Len(name) : name[k] = "."}
  IN  IF dots = {} THEN name
      ELSE SubSeq(name, 1, (CHOOSE k \in dots : \A j \in dots : j <= k) - 1)

(***************************************************************************)
(* State.                                                                  *)
(***************************************************************************)
VARIABLES
  frontend,      \* per invocation: "ui", "cli" or "off" (never started)
  url,           \* per invocation: "missing" (no argument), "" or "u"
  playlist,      \* per invocation: the file names the url resolves to
  out_dir,       \* per invocation: "" (nothing entered) or "d"
  quality,       \* per invocation: the requested bitrate
  pc,            \* per invocation: position in the code
  destDir,       \* what the path "d" is: "absent", "dir" or "file"
  canCreate,     \* whether mkdir of "d" succeeds
  destFiles,     \* files of the directory "d": name -> content
  scratch,       \* per invocation: the TemporaryDirectory
  candidates,    \* per invocation: candidates the for loop has yet to visit
  ok,            \* per invocation: local ok
  probe,         \* per invocation: what the external tools answered for cand
  dest,          \* per invocation: local dest (a name inside "d")
  i,             \* per invocation: local i
  accepted,      \* per invocation: local accepted, a list of names inside "d"
  result,        \* per invocation: how the front end ended
  reports,       \* per invocation: messages shown to the user
  destDir0,      \* history: destDir before any invocation
  destFiles0,    \* history: destFiles before any invocation
  fetchInvoked,  \* history: per invocation, the downloader was called
  scratchMade,   \* history: per invocation, a TemporaryDirectory was created
  produced,      \* history: per invocation, names the downloader wrote
  processed,     \* history: per invocation, candidates visited and outcome
  acceptedFrom,  \* history: per invocation, content moved to accepted[k]
  sanIn,         \* sanitizer check: raw title
  sanMax,        \* sanitizer check: max_length
  sanOut,        \* sanitizer check: results of the applications so far
  sanPc          \* sanitizer check: position

vars ==
  <<frontend, url, playlist, out_dir, quality, pc, destDir, canCreate, destFiles,
    scratch, candidates, ok, probe, dest, i, accepted, result, reports,
    destDir0, destFiles0, fetchInvoked, scratchMade, produced, processed,
    acceptedFrom, sanIn, sanMax, sanOut, sanPc>>

pipeVars ==
  <<frontend, url, playlist, out_dir, quality, pc, destDir, canCreate, destFiles,
    scratch, candidates, ok, probe, dest, i, accepted, result, reports,
    destDir0, destFiles0, fetchInvoked, scratchMade, produced, processed,
    acceptedFrom>>

sanVars == <<sanIn, sanMax, sanOut, sanPc>>

\* the invocations (UI sessions or CLI processes)
Procs == {1, 2}

\* st.selectbox("MP3 bitrate (kbps)", [128, 192, 256, 320], index=1)
AllowedBitrates == {128, 192, 256, 320}

\* values the CLI's free-form --quality option may carry
CliBitrates == {192, 999}

\* a directory without files
EmptyDir == [n \in {} |-> <<0, <<>>>>]

\* a TemporaryDirectory that does not exist (now)
NoScratch == [exists |-> FALSE, files |-> EmptyDir]

\* directory d with file n (over)written with content c
WithFile(d, n, c) == [x \in DOMAIN d \cup {n} |-> IF x = n THEN c ELSE d[x]]

\* directory d without file n
WithoutFile(d, n) == [x \in DOMAIN d \ {n} |-> d[x]]

\* "S.mp3" and "S (1).mp3", names a destination may hold beforehand
OldNames == {<<"S">> \o MP3, <<"S", " ", "(", "1", ")">> \o MP3}

\* names the external downloader may write (title + extension)
FetchUniverse ==
  { <<"S">> \o MP3,
    <<":", "S">> \o MP3,
    <<" ", "S">> \o MP3,
    <<"S", " ", "(", "1", ")">> \o MP3,
    <<":">> \o MP3,
    <<"S", ".", "p", "a", "r", "t">> }

\* no tool has been run for a candidate
NoProbe == [avail |-> FALSE, raised |-> FALSE, report |-> <<>>, decode |-> "n/a"]

(***************************************************************************)
(* Front ends up to the call of the external downloader.                   *)
(***************************************************************************)
\* end of an invocation: how it ended and what the user was told
Finish(p, how, msg) ==
  /\ pc' = [pc EXCEPT ![p] = "done"]
  /\ result' = [result EXCEPT ![p] = how]
  /\ reports' = [reports EXCEPT ![p] = @ \cup msg]

\* an input check that lets every url through
UrlGivenAlways(p) == TRUE

\* "if not url" of streamlit main(): whether a url was entered
UrlGiven(p) == url[p] # ""

\* streamlit main(), from the Download button to the call of
\* download_and_validate: the input checks and the mkdir of the folder
\* (the warning about a missing ffmpeg/ffprobe changes nothing)
ui_main(p) ==
  /\ pc[p] = "start" /\ frontend[p] = "ui"
  /\ UNCHANGED <<frontend, url, playlist, out_dir, quality, canCreate, destFiles,
                 scratch, candidates, ok, probe, dest, i, accepted, destDir0,
                 destFiles0, fetchInvoked, scratchMade, produced, processed,
                 acceptedFrom, sanVars>>
  /\ IF ~UrlGiven(p)
       THEN Finish(p, "input_error", {"provide_url"}) /\ UNCHANGED destDir
     ELSE IF out_dir[p] = ""
       THEN Finish(p, "input_error", {"select_folder"}) /\ UNCHANGED destDir
     ELSE IF destDir = "absent" /\ ~canCreate
       THEN Finish(p, "input_error", {"could_not_create"}) /\ UNCHANGED destDir
     ELSE /\ destDir' = IF destDir = "absent" THEN "dir" ELSE destDir
          /\ pc' = [pc EXCEPT ![p] = "call"]
          /\ UNCHANGED <<result, reports>>

\* download_and_validate, up to the call of the downloader:
\* final_out_dir.mkdir(parents=True, exist_ok=True), then the
\* TemporaryDirectory is entered.  A failing mkdir raises before the
\* directory is made; main() reports it.
dav_enter(p) ==
  /\ pc[p] = "call"
  /\ UNCHANGED <<frontend, url, playlist, out_dir, quality, canCreate, destFiles,
                 candidates, ok, probe, dest, i, accepted, destDir0,
                 destFiles0, fetchInvoked, produced, processed, acceptedFrom,
                 sanVars>>
  /\ IF destDir = "file" \/ (destDir = "absent" /\ ~canCreate)
       THEN /\ Finish(p, "mkdir_raised", {"failed"})
            /\ UNCHANGED <<destDir, scratch, scratchMade>>
       ELSE /\ destDir' = "dir"
            /\ scratch' = [scratch EXCEPT ![p] = [exists |-> TRUE, files |-> EmptyDir]]
            /\ scratchMade' = [scratchMade EXCEPT ![p] = TRUE]
            /\ pc' = [pc EXCEPT ![p] = "fetch"]
            /\ UNCHANGED <<result, reports>>

\* CLI main() and parse_args(): argparse ends the process when the
\* positional url is missing; any --quality string is taken as it is
cli_main(p) ==
  /\ pc[p] = "start" /\ frontend[p] = "cli"
  /\ UNCHANGED <<frontend, url, playlist, out_dir, quality, destDir, canCreate,
                 destFiles, scratch, candidates, ok, probe, dest, i, accepted,
                 destDir0, destFiles0, fetchInvoked, scratchMade, produced,
                 processed, acceptedFrom, sanVars>>
  /\ IF url[p] = "missing"
       THEN Finish(p, "usage_error", {"usage"})
       ELSE pc' = [pc EXCEPT ![p] = "cli_call"] /\ UNCHANGED <<result, reports>>

\* download_mp3 up to the call of the downloader: os.makedirs(out_dir,
\* exist_ok=True); its exception is not caught and ends the process
download_mp3_enter(p) ==
  /\ pc[p] = "cli_call"
  /\ UNCHANGED <<frontend, url, playlist, out_dir, quality, canCreate, destFiles,
                 scratch, candidates, ok, probe, dest, i, accepted, destDir0,
                 destFiles0, fetchInvoked, scratchMade, produced, processed,
                 acceptedFrom, sanVars>>
  /\ IF destDir = "file" \/ (destDir = "absent" /\ ~canCreate)
       THEN Finish(p, "crashed", {"traceback"}) /\ UNCHANGED destDir
       ELSE /\ destDir' = "dir"
            /\ pc' = [pc EXCEPT ![p] = "fetch"]
            /\ UNCHANGED <<result, reports>>

(***************************************************************************)
(* The external downloader.                                                *)
(***************************************************************************)
\* a downloader whose output template points at the output folder
OutTmplDest(p) == "dest"

\* the directory of outtmpl: tmp in download_and_validate, out_dir in
\* download_mp3
OutTmpl(p) == IF frontend[p] = "ui" THEN "scratch" ELSE "dest"

\* YoutubeDL(ydl_opts).extract_info / .download: writes the files of the
\* playlist under the output template and returns, or raises after it
\* wrote some of them.  What it does to a file that is already there is
\* its own business: it keeps it or overwrites it.
YoutubeDL(p) ==
  /\ pc[p] = "fetch"
  /\ fetchInvoked' = [fetchInvoked EXCEPT ![p] = TRUE]
  /\ \E files \in SUBSET playlist[p], raises \in BOOLEAN, overwrite \in BOOLEAN :
       /\ (~raises => files = playlist[p])
       /\ produced' = [produced EXCEPT ![p] = files]
       /\ pc' = [pc EXCEPT ![p] = IF raises THEN "fetch_raised" ELSE "fetched"]
       /\ IF OutTmpl(p) = "scratch"
            THEN /\ overwrite
                 /\ scratch' = [scratch EXCEPT ![p].files =
                                  [n \in files |-> <<p, n>>]]
                 /\ UNCHANGED destFiles
            ELSE /\ (overwrite \/ files \cap DOMAIN destFiles # {})
                 /\ destFiles' =
                      [n \in DOMAIN destFiles \cup files |->
                         IF n \in files /\ (overwrite \/ n \notin DOMAIN destFiles)
                           THEN <<p, n>> ELSE destFiles[n]]
                 /\ UNCHANGED scratch
  /\ UNCHANGED <<frontend, url, playlist, out_dir, quality, destDir, canCreate,
                 candidates, ok, probe, dest, i, accepted, result, reports,
                 destDir0, destFiles0, scratchMade, processed, acceptedFrom,
                 sanVars>>

\* download_mp3 after the downloader: "Download failed" and sys.exit(1),
\* or back to main() and "Done."
download_mp3_exit(p) ==
  /\ pc[p] \in {"fetched", "fetch_raised"} /\ frontend[p] = "cli"
  /\ IF pc[p] = "fetch_raised"
       THEN Finish(p, "exit_1", {"download_failed"})
       ELSE Finish(p, "returned", {"done"})
  /\ UNCHANGED <<frontend, url, playlist, out_dir, quality, destDir, canCreate,
                 destFiles, scratch, candidates, ok, probe, dest, i, accepted,
                 destDir0, destFiles0, fetchInvoked, scratchMade, produced,
                 processed, acceptedFrom, sanVars>>

(***************************************************************************)
(* download_and_validate after the downloader.                             *)
(***************************************************************************)
\* a cleanup that is skipped when the block is left by an exception
TempDirExitOnReturnOnly(p) ==
  IF pc[p] = "fetch_raised" THEN scratch[p] ELSE NoScratch

\* leaving "with tempfile.TemporaryDirectory() as tmpdir": the directory
\* and what is left in it are removed, on return and on exception alike
TempDirExit(p) == NoScratch

\* the downloader raised: the exception leaves the with block and reaches
\* main(), which shows "Download/validation failed"
dav_fetch_raised(p) ==
  /\ pc[p] = "fetch_raised" /\ frontend[p] = "ui"
  /\ scratch' = [scratch EXCEPT ![p] = TempDirExit(p)]
  /\ Finish(p, "fetch_raised", {"failed"})
  /\ UNCHANGED <<frontend, url, playlist, out_dir, quality, destDir, canCreate,
                 destFiles, candidates, ok, probe, dest, i, accepted, destDir0,
                 destFiles0, fetchInvoked, scratchMade, produced, processed,
                 acceptedFrom, sanVars>>

\* candidates = sorted(tmp.glob("*.mp3")); accepted = []
dav_candidates(p) ==
  /\ pc[p] = "fetched" /\ frontend[p] = "ui"
  /\ candidates' = [candidates EXCEPT ![p] =
                      Sorted({n \in DOMAIN scratch[p].files : IsMp3(n)})]
  /\ accepted' = [accepted EXCEPT ![p] = <<>>]
  /\ pc' = [pc EXCEPT ![p] = "loop"]
  /\ UNCHANGED <<frontend, url, playlist, out_dir, quality, destDir, canCreate,
                 destFiles, scratch, ok, probe, dest, i, result, reports,
                 destDir0, destFiles0, fetchInvoked, scratchMade, produced,
                 processed, acceptedFrom, sanVars>>

\* the candidate the loop body is working on
cand(p) == Head(candidates[p])

\* str.lower() on the letters of a report
Lower(s) ==
  [k \in 1..Len(s) |->
     CASE s[k] = "M" -> "m" [] s[k] = "P" -> "p" [] s[k] = "W" -> "w"
       [] OTHER -> s[k]]

\* "mp3" in out
ContainsMp3(s) ==
  \E k \in 1..(Len(s) - 2) : SubSeq(s, k, k + 2) = <<"m", "p", "3">>

\* format names ffprobe may print for a file
ProbeReports ==
  { <<"m", "p", "3">>, <<"M", "P", "3">>, <<"w", "a", "v">>, <<>> }

\* ffprobe_recognizes_mp3: False when ffprobe is not on PATH or the call
\* raises (timeout included), else whether the lowered report contains mp3
ffprobe_recognizes_mp3(pr) ==
  IF ~pr.avail THEN FALSE
  ELSE IF pr.raised THEN FALSE
  ELSE ContainsMp3(Lower(pr.report))

\* ok after lines 139-151: the ffmpeg decode runs whenever
\* ffprobe_recognizes_mp3 returned False; an exception gives False
Verdict(pr) ==
  IF ffprobe_recognizes_mp3(pr) THEN TRUE ELSE pr.decode = "0"

\* the outcomes of the external tools for one candidate; a tool that is
\* not run reports "n/a"
ProbeOutcomes ==
  {pr \in [avail : BOOLEAN, raised : BOOLEAN, report : ProbeReports,
           decode : {"n/a", "0", "nonzero", "raised"}] :
     /\ (~pr.avail => ~pr.raised /\ pr.report = <<>>)
     /\ (pr.raised => pr.report = <<>>)
     /\ (pr.decode = "n/a") = ffprobe_recognizes_mp3(pr)}

\* loop body, lines 139-151: the validation of cand
dav_validate(p) ==
  /\ pc[p] = "loop" /\ candidates[p] # <<>>
  /\ \E pr \in ProbeOutcomes :
       /\ probe' = [probe EXCEPT ![p] = pr]
       /\ ok' = [ok EXCEPT ![p] = Verdict(pr)]
  /\ pc' = [pc EXCEPT ![p] = "validated"]
  /\ UNCHANGED <<frontend, url, playlist, out_dir, quality, destDir, canCreate,
                 destFiles, scratch, candidates, dest, i, accepted, result,
                 reports, destDir0, destFiles0, fetchInvoked, scratchMade,
                 produced, processed, acceptedFrom, sanVars>>

\* a loop that stops at the first candidate it does not place
BreakLoop(p) == <<>>

\* "continue" / end of the loop body: the loop goes on with the next
\* candidate
ContinueLoop(p) == Tail(candidates[p])

\* a pipeline that places a candidate whatever the validation said
ShouldPlaceAlways(p) == TRUE

\* "if not ok: ... continue": only a validated candidate is placed
ShouldPlace(p) == ok[p]

\* loop body, lines 153-160: an invalid candidate is warned about and
\* unlinked (a failing unlink is swallowed), and never moved
dav_discard(p) ==
  /\ pc[p] = "validated" /\ ~ok[p]
  /\ reports' = [reports EXCEPT ![p] = @ \cup {"discarding"}]
  /\ \E unlinked \in BOOLEAN :
       scratch' = [scratch EXCEPT ![p].files =
                     IF unlinked THEN WithoutFile(@, cand(p)) ELSE @]
  /\ processed' = [processed EXCEPT ![p] =
                     Append(@, [name |-> cand(p), ok |-> ok[p], outcome |-> "rejected"])]
  /\ candidates' = [candidates EXCEPT ![p] = ContinueLoop(p)]
  /\ ok' = [ok EXCEPT ![p] = FALSE]
  /\ probe' = [probe EXCEPT ![p] = NoProbe]
  /\ pc' = [pc EXCEPT ![p] = "loop"]
  /\ UNCHANGED <<frontend, url, playlist, out_dir, quality, destDir, canCreate,
                 destFiles, dest, i, accepted, result, destDir0, destFiles0,
                 fetchInvoked, scratchMade, produced, acceptedFrom, sanVars>>

\* a check that never sees the file
ExistsNever(n) == FALSE

\* dest.exists() for a name inside the destination folder
Exists(n) == n \in DOMAIN destFiles

\* a counter that is incremented before it is used
CounterNameFromTwo(stem, k) ==
  stem \o <<" ", "(">> \o Digits(k + 1) \o <<")">> \o MP3

\* f"{safe_filename(cand.stem)} ({i}).mp3"
CounterName(stem, k) == stem \o <<" ", "(">> \o Digits(k) \o <<")">> \o MP3

\* loop body, lines 163-169: the sanitized name and the first existence
\* check
dav_resolve(p) ==
  /\ pc[p] = "validated" /\ ShouldPlace(p)
  /\ LET safe_name == safe_filename(Stem(cand(p)), DefaultMaxLength) \o MP3
     IN  /\ dest' = [dest EXCEPT ![p] = safe_name]
         /\ IF Exists(safe_name)
              THEN /\ i' = [i EXCEPT ![p] = 1]
                   /\ pc' = [pc EXCEPT ![p] = "collide"]
              ELSE /\ pc' = [pc EXCEPT ![p] = "replace"]
                   /\ UNCHANGED i
  /\ UNCHANGED <<frontend, url, playlist, out_dir, quality, destDir, canCreate,
                 destFiles, scratch, candidates, ok, probe, accepted, result,
                 reports, destDir0, destFiles0, fetchInvoked, scratchMade,
                 produced, processed, acceptedFrom, sanVars>>

\* lines 170-172: one evaluation of "while dest.exists()" and, when it
\* holds, one round of the loop
dav_while(p) ==
  /\ pc[p] = "collide"
  /\ IF Exists(dest[p])
       THEN /\ dest' = [dest EXCEPT ![p] =
                          CounterName(safe_filename(Stem(cand(p)), DefaultMaxLength), i[p])]
            /\ i' = [i EXCEPT ![p] = @ + 1]
            /\ UNCHANGED pc
       ELSE /\ pc' = [pc EXCEPT ![p] = "replace"]
            /\ UNCHANGED <<dest, i>>
  /\ UNCHANGED <<frontend, url, playlist, out_dir, quality, destDir, canCreate,
                 destFiles, scratch, candidates, ok, probe, accepted, result,
                 reports, destDir0, destFiles0, fetchInvoked, scratchMade,
                 produced, processed, acceptedFrom, sanVars>>

\* lines 174-182: os.replace(cand, dest) (it replaces whatever is at
\* dest), chmod (its failure is swallowed), accepted.append(dest); or the
\* move raises and st.error reports it.  Then the next candidate.
dav_replace(p) ==
  /\ pc[p] = "replace"
  /\ \E moved \in BOOLEAN :
       IF moved
         THEN /\ destFiles' = WithFile(destFiles, dest[p], scratch[p].files[cand(p)])
              /\ scratch' = [scratch EXCEPT ![p].files = WithoutFile(@, cand(p))]
              /\ accepted' = [accepted EXCEPT ![p] = Append(@, dest[p])]
              /\ acceptedFrom' = [acceptedFrom EXCEPT ![p] =
                                    Append(@, scratch[p].files[cand(p)])]
              /\ processed' = [processed EXCEPT ![p] =
                   Append(@, [name |-> cand(p), ok |-> ok[p], outcome |-> "placed"])]
              /\ UNCHANGED reports
         ELSE /\ reports' = [reports EXCEPT ![p] = @ \cup {"failed_to_move"}]
              /\ processed' = [processed EXCEPT ![p] =
                   Append(@, [name |-> cand(p), ok |-> ok[p], outcome |-> "move_failed"])]
              /\ UNCHANGED <<destFiles, scratch, accepted, acceptedFrom>>
  /\ candidates' = [candidates EXCEPT ![p] = ContinueLoop(p)]
  /\ ok' = [ok EXCEPT ![p] = FALSE]
  /\ probe' = [probe EXCEPT ![p] = NoProbe]
  /\ dest' = [dest EXCEPT ![p] = <<>>]
  /\ i' = [i EXCEPT ![p] = 0]
  /\ pc' = [pc EXCEPT ![p] = "loop"]
  /\ UNCHANGED <<frontend, url, playlist, out_dir, quality, destDir, canCreate, result,
                 destDir0, destFiles0, fetchInvoked, scratchMade, produced,
                 sanVars>>

\* "return accepted": the with block is left and main() shows the result
dav_return(p) ==
  /\ pc[p] = "loop" /\ candidates[p] = <<>>
  /\ scratch' = [scratch EXCEPT ![p] = TempDirExit(p)]
  /\ Finish(p, "returned", IF accepted[p] = <<>> THEN {"no_files"} ELSE {"completed"})
  /\ UNCHANGED <<frontend, url, playlist, out_dir, quality, destDir, canCreate,
                 destFiles, candidates, ok, probe, dest, i, accepted, destDir0,
                 destFiles0, fetchInvoked, scratchMade, produced, processed,
                 acceptedFrom, sanVars>>

(***************************************************************************)
(* The sanitizer on its own.                                               *)
(***************************************************************************)
\* characters of the raw titles: a letter, two kinds of whitespace and a
\* forbidden character
SanAlphabet == {"a", " ", "\t", "/"}

\* all strings over SanAlphabet of length at most n
Titles(n) == UNION {[1..k -> SanAlphabet] : k \in 0..n}

\* safe_filename applied to a raw title
san_apply ==
  /\ sanPc = "in"
  /\ sanOut' = <<safe_filename(sanIn, sanMax)>>
  /\ sanPc' = "once"
  /\ UNCHANGED <<sanIn, sanMax, pipeVars>>

\* safe_filename applied to its own result
san_reapply ==
  /\ sanPc = "once"
  /\ sanOut' = Append(sanOut, safe_filename(sanOut[1], sanMax))
  /\ sanPc' = "twice"
  /\ UNCHANGED <<sanIn, sanMax, pipeVars>>

(***************************************************************************)
(* Initial states and specifications.                                      *)
(***************************************************************************)
\* contents a destination folder may have beforehand
DestConfigs == {[n \in S |-> <<0, n>>] : S \in SUBSET OldNames}

\* playlists a url may resolve to
Playlists == {S \in SUBSET FetchUniverse : Cardinality(S) <= MaxFiles}

\* the parts of the state no invocation has touched yet
InitLocals ==
  /\ scratch = [p \in Procs |-> NoScratch]
  /\ candidates = [p \in Procs |-> <<>>]
  /\ ok = [p \in Procs |-> FALSE]
  /\ probe = [p \in Procs |-> NoProbe]
  /\ dest = [p \in Procs |-> <<>>]
  /\ i = [p \in Procs |-> 0]
  /\ accepted = [p \in Procs |-> <<>>]
  /\ result = [p \in Procs |-> "none"]
  /\ reports = [p \in Procs |-> {}]
  /\ fetchInvoked = [p \in Procs |-> FALSE]
  /\ scratchMade = [p \in Procs |-> FALSE]
  /\ produced = [p \in Procs |-> {}]
  /\ processed = [p \in Procs |-> <<>>]
  /\ acceptedFrom = [p \in Procs |-> <<>>]
  /\ destDir0 = destDir
  /\ destFiles0 = destFiles

\* the sanitizer check is not running
InitSanOff ==
  /\ sanIn = <<>> /\ sanMax = 0 /\ sanOut = <<>> /\ sanPc = "off"

\* the destination path before the request: a folder with some files, a
\* regular file, or nothing (which mkdir can or cannot create)
InitDest ==
  /\ destDir \in {"absent", "dir", "file"}
  /\ canCreate \in BOOLEAN
  /\ (destDir # "absent" => canCreate)
  /\ destFiles \in DestConfigs
  /\ (destDir # "dir" => destFiles = EmptyDir)

\* one request, made through the UI or through the CLI
Init ==
  /\ \E fe \in {"ui", "cli"} :
       /\ frontend = [p \in Procs |-> IF p = 1 THEN fe ELSE "off"]
       /\ \E u \in (IF fe = "ui" THEN {"", "u"} ELSE {"missing", "", "u"}),
             o \in (IF fe = "ui" THEN {"", "d"} ELSE {"d"}),
             q \in (IF fe = "ui" THEN AllowedBitrates ELSE CliBitrates),
             pl \in Playlists :
            /\ url = [p \in Procs |-> IF p = 1 THEN u ELSE ""]
            /\ out_dir = [p \in Procs |-> IF p = 1 THEN o ELSE ""]
            /\ quality = [p \in Procs |-> IF p = 1 THEN q ELSE 0]
            /\ playlist = [p \in Procs |-> IF p = 1 THEN pl ELSE {}]
  /\ pc = [p \in Procs |-> IF p = 1 THEN "start" ELSE "off"]
  /\ InitDest
  /\ InitLocals
  /\ InitSanOff

\* the steps of one invocation
Step(p) ==
  \/ ui_main(p)
  \/ dav_enter(p)
  \/ cli_main(p)
  \/ download_mp3_enter(p)
  \/ YoutubeDL(p)
  \/ download_mp3_exit(p)
  \/ dav_fetch_raised(p)
  \/ dav_candidates(p)
  \/ dav_validate(p)
  \/ dav_discard(p)
  \/ dav_resolve(p)
  \/ dav_while(p)
  \/ dav_replace(p)
  \/ dav_return(p)

Next == \E p \in Procs : Step(p)

\* a single request
Spec == Init /\ [][Next]_vars

\* playlists of the two sessions of SpecSessions
SessionPlaylists == {S \in SUBSET {<<"S">> \o MP3, <<":", "S">> \o MP3} : S # {}}

\* two UI sessions download into the same existing folder
InitSessions ==
  /\ frontend = [p \in Procs |-> "ui"]
  /\ url = [p \in Procs |-> "u"]
  /\ out_dir = [p \in Procs |-> "d"]
  /\ quality = [p \in Procs |-> 192]
  /\ playlist \in [Procs -> SessionPlaylists]
  /\ pc = [p \in Procs |-> "start"]
  /\ destDir = "dir" /\ canCreate = TRUE
  /\ destFiles \in {EmptyDir, [n \in {<<"S">> \o MP3} |-> <<0, n>>]}
  /\ InitLocals
  /\ InitSanOff

\* the steps of a UI session
UIStep(p) ==
  \/ ui_main(p)
  \/ dav_enter(p)
  \/ YoutubeDL(p)
  \/ dav_fetch_raised(p)
  \/ dav_candidates(p)
  \/ dav_validate(p)
  \/ dav_discard(p)
  \/ dav_resolve(p)
  \/ dav_while(p)
  \/ dav_replace(p)
  \/ dav_return(p)

NextSessions == \E p \in Procs : UIStep(p)

\* streamlit runs each session's script in a thread of its own
SpecSessions == InitSessions /\ [][NextSessions]_vars

\* safe_filename on every title up to MaxLen and every max_length up to it
InitSanitize ==
  /\ sanIn \in Titles(MaxLen)
  /\ sanMax \in 0..MaxLen
  /\ sanOut = <<>>
  /\ sanPc = "in"
  /\ frontend = [p \in Procs |-> "off"]
  /\ url = [p \in Procs |-> ""]
  /\ out_dir = [p \in Procs |-> ""]
  /\ quality = [p \in Procs |-> 0]
  /\ playlist = [p \in Procs |-> {}]
  /\ pc = [p \in Procs |-> "off"]
  /\ destDir = "absent" /\ canCreate = TRUE /\ destFiles = EmptyDir
  /\ InitLocals

NextSanitize == san_apply \/ san_reapply

SpecSanitize == InitSanitize /\ [][NextSanitize]_vars

(***************************************************************************)
(* Properties.                                                             *)
(***************************************************************************)
\* the elements of a sequence
Range(q) == {q[k] : k \in 1..Len(q)}

\* the candidates of invocation p: the playlist's files matching *.mp3
Mp3Of(p) == {n \in playlist[p] : IsMp3(n)}

\* the sanitized stem of the file a content was downloaded as
SafeStemOf(c) == safe_filename(Stem(c[2]), DefaultMaxLength)

\* the processed records of p with the given outcome
WithOutcome(p, o) == {r \in Range(processed[p]) : r.outcome = o}

\* C1: once an invocation has ended, however it ended, its scratch
\* directory and everything left in it are gone.
C1_ScratchRemoved ==
  \A p \in Procs : pc[p] = "done" => scratch[p] = NoScratch

\* C1 witness: the downloader raised after writing files into the scratch
\* directory, and the invocation has ended.
C1_Witness ==
  \E p \in Procs :
    /\ pc[p] = "done" /\ result[p] = "fetch_raised"
    /\ scratchMade[p] /\ produced[p] # {}

\* C2: when the downloader raises inside the pipeline, the caller gets the
\* error, no candidate was validated or placed, and the destination holds
\* exactly the files it held before.
C2_FetchErrorAborts ==
  \A p \in Procs :
    (frontend[p] = "ui" /\ pc[p] \in {"fetch_raised", "done"}
       /\ (pc[p] = "done" => result[p] = "fetch_raised"))
    => /\ destFiles = destFiles0
       /\ processed[p] = <<>> /\ accepted[p] = <<>>
       /\ (pc[p] = "done" => "failed" \in reports[p])

\* C2 witness: the downloader raised after writing files, the destination
\* held files before, and main() has reported the failure.
C2_Witness ==
  \E p \in Procs :
    /\ pc[p] = "done" /\ result[p] = "fetch_raised"
    /\ produced[p] # {} /\ destFiles0 # EmptyDir

\* C3: during and after a pipeline run every file the destination held
\* before is still there with its content, and every path in accepted
\* still holds the file that was moved to it.
C3_NothingOverwritten ==
  \A p \in Procs :
    frontend[p] = "ui" =>
      /\ \A n \in DOMAIN destFiles0 :
           n \in DOMAIN destFiles /\ destFiles[n] = destFiles0[n]
      /\ Len(acceptedFrom[p]) = Len(accepted[p])
      /\ \A k \in 1..Len(accepted[p]) :
           /\ accepted[p][k] \in DOMAIN destFiles
           /\ destFiles[accepted[p][k]] = acceptedFrom[p][k]

\* C3 witness: a run has returned after placing two candidates that
\* sanitize to the same name into a destination that already held it.
C3_Witness ==
  \E p \in Procs :
    /\ pc[p] = "done" /\ result[p] = "returned"
    /\ \E j, k \in 1..Len(acceptedFrom[p]) :
         /\ j # k
         /\ SafeStemOf(acceptedFrom[p][j]) = SafeStemOf(acceptedFrom[p][k])
         /\ SafeStemOf(acceptedFrom[p][j]) \o MP3 \in DOMAIN destFiles0

\* C4: a run that returns has visited every candidate, in lexicographic
\* order, whatever happened to the earlier ones; accepted holds exactly
\* the validated candidates whose move succeeded; a rejected candidate
\* is in neither the scratch directory nor the destination; and without
\* placement failures N candidates with k rejections give N-k paths and
\* N-k new files.
C4_EveryCandidateProcessed ==
  \A p \in Procs :
    (frontend[p] = "ui" /\ result[p] = "returned") =>
      LET seen == processed[p]
          N == Cardinality(Mp3Of(p))
          k == Cardinality(WithOutcome(p, "rejected"))
      IN  /\ Len(seen) = N
          /\ {r.name : r \in Range(seen)} = Mp3Of(p)
          /\ \A a, b \in 1..Len(seen) : a < b => StrLess(seen[a].name, seen[b].name)
          /\ \A r \in Range(seen) :
               /\ (r.outcome = "rejected") = ~r.ok
               /\ (r.outcome = "placed") = (<<p, r.name>> \in Range(acceptedFrom[p]))
               /\ r.outcome = "rejected" =>
                    /\ \A n \in DOMAIN destFiles : destFiles[n] # <<p, r.name>>
                    /\ r.name \notin DOMAIN scratch[p].files
          /\ Len(accepted[p]) = Cardinality(WithOutcome(p, "placed"))
          /\ WithOutcome(p, "move_failed") = {} =>
               /\ Len(accepted[p]) = N - k
               /\ Cardinality(DOMAIN destFiles) = Cardinality(DOMAIN destFiles0) + N - k

\* C4 witness: three candidates, the first of them rejected, no placement
\* failure, and the run has returned.
C4_Witness ==
  \E p \in Procs :
    /\ frontend[p] = "ui" /\ result[p] = "returned"
    /\ Len(processed[p]) = 3
    /\ processed[p][1].outcome = "rejected"
    /\ processed[p][2].outcome = "placed"
    /\ processed[p][3].outcome = "placed"

\* the name "S (k).mp3", written out
SuffixedName(S, k) ==
  S \o <<" ", "(">> \o Digits(k) \o <<")", ".", "m", "p", "3">>

\* the name the collision policy asks for: S.mp3 when free in directory
\* D, else S (k).mp3 for the least k >= 1 whose name is free
PolicyName(S, D) ==
  IF S \o <<".", "m", "p", "3">> \notin D THEN S \o <<".", "m", "p", "3">>
  ELSE LET free == {k \in 1..(Cardinality(D) + 1) : SuffixedName(S, k) \notin D}
       IN  SuffixedName(S, CHOOSE k \in free : \A j \in free : k <= j)

\* "S.mp3", "S (1).mp3", "S (2).mp3", "S (3).mp3", written out
SongNames ==
  << <<"S", ".", "m", "p", "3">>,
     <<"S", " ", "(", "1", ")", ".", "m", "p", "3">>,
     <<"S", " ", "(", "2", ")", ".", "m", "p", "3">>,
     <<"S", " ", "(", "3", ")", ".", "m", "p", "3">> >>

\* C5: every placement uses the name the collision policy asks for in
\* the destination as it is at the move; and with only S.mp3 present
\* beforehand, successive placements of stem S are S (1).mp3, S (2).mp3, ...
C5_CollisionPolicy ==
  /\ [][\A p \in Procs :
          accepted'[p] # accepted[p] =>
            accepted'[p] = Append(accepted[p],
                                  PolicyName(SafeStemOf(<<p, cand(p)>>), DOMAIN destFiles))]_vars
  /\ [](\A p \in Procs :
          (/\ DOMAIN destFiles0 = {SongNames[1]}
           /\ \A c \in Range(acceptedFrom[p]) : SafeStemOf(c) = <<"S">>)
          => \A k \in 1..Len(accepted[p]) : accepted[p][k] = SongNames[k + 1])

\* C5 witness: S.mp3 was there, and two candidates of stem S have been
\* placed as S (1).mp3 and S (2).mp3.
C5_Witness ==
  \E p \in Procs :
    /\ DOMAIN destFiles0 = {SongNames[1]}
    /\ accepted[p] = <<SongNames[2], SongNames[3]>>
    /\ \A c \in Range(acceptedFrom[p]) : SafeStemOf(c) = <<"S">>

\* C6: safe_filename applied to its own result, with the same max_length,
\* returns that result.
C6_Idempotent ==
  sanPc = "twice" => sanOut[2] = sanOut[1]

\* a content that went through the pipeline of invocation p: it was a
\* candidate in p's scratch directory, the validation accepted it and it
\* was moved
ThroughPipeline(c) ==
  /\ c[1] \in Procs
  /\ scratchMade[c[1]]
  /\ \E r \in Range(processed[c[1]]) :
       r.name = c[2] /\ r.ok /\ r.outcome = "placed"

\* C7 as stated: with either front end, every file of the destination was
\* there before or went through the pipeline.
C7_OnlyThroughPipeline ==
  \A n \in DOMAIN destFiles :
    \/ (n \in DOMAIN destFiles0 /\ destFiles[n] = destFiles0[n])
    \/ ThroughPipeline(destFiles[n])

\* C7 amended: every file of the destination was there before, or went
\* through the pipeline, or was written by a CLI invocation; and the CLI
\* makes no scratch directory and validates nothing.
C7_OnlyThroughPipelineUI ==
  /\ \A n \in DOMAIN destFiles :
       \/ (n \in DOMAIN destFiles0 /\ destFiles[n] = destFiles0[n])
       \/ ThroughPipeline(destFiles[n])
       \/ (destFiles[n][1] \in Procs /\ frontend[destFiles[n][1]] = "cli")
  /\ \A p \in Procs :
       frontend[p] = "cli" => ~scratchMade[p] /\ processed[p] = <<>>

\* C7 witness: a UI run has returned with one candidate rejected and
\* another placed.
C7_Witness ==
  \E p \in Procs :
    /\ frontend[p] = "ui" /\ result[p] = "returned"
    /\ WithOutcome(p, "rejected") # {}
    /\ \E n \in DOMAIN destFiles : destFiles[n][1] = p

\* C8: the verdict of the validation is "accepted" exactly when ffprobe is
\* available and its report contains mp3, or ffprobe is unavailable and
\* the ffmpeg decode ended with status 0.
C8_ValidatorVerdict ==
  \A p \in Procs :
    pc[p] = "validated" =>
      (ok[p] <=>
         \/ (probe[p].avail /\ ~probe[p].raised /\ ContainsMp3(Lower(probe[p].report)))
         \/ (~probe[p].avail /\ probe[p].decode = "0"))

\* the destination path cannot be made a directory
Uncreatable == destDir0 = "file" \/ (destDir0 = "absent" /\ ~canCreate)

\* an input error of the request of p: no url (an empty field in the UI,
\* no argument on the command line), no folder, a folder that cannot be
\* made, or a bitrate outside the allowed set
InputError(p) ==
  /\ frontend[p] # "off"
  /\ \/ url[p] = (IF frontend[p] = "ui" THEN "" ELSE "missing")
     \/ out_dir[p] = ""
     \/ Uncreatable
     \/ quality[p] \notin {128, 192, 256, 320}

\* the request of p was turned down before anything happened
Rejected(p) ==
  /\ ~fetchInvoked[p] /\ ~scratchMade[p]
  /\ destFiles = destFiles0
  /\ pc[p] = "done" =>
       /\ result[p] \in {"input_error", "mkdir_raised", "usage_error", "crashed"}
       /\ reports[p] # {}

\* C9 as stated: with either front end, a request with an input error is
\* rejected and reported before the downloader runs, without side effects.
C9_InputErrorsRejected ==
  \A p \in Procs : InputError(p) => Rejected(p)

\* C9 amended: the UI rejects a request without url, without folder or
\* with an uncreatable folder, and its bitrate is always an allowed one;
\* the CLI rejects a request without url argument or with an uncreatable
\* output directory.
C9_InputErrorsRejectedUI ==
  \A p \in Procs :
    /\ (frontend[p] = "ui" /\ InputError(p)) => Rejected(p)
    /\ frontend[p] = "ui" => quality[p] \in {128, 192, 256, 320}
    /\ (frontend[p] = "cli" /\ (url[p] = "missing" \/ Uncreatable)) => Rejected(p)

\* C9 witness: a UI request whose folder path is a regular file has ended
\* with the error raised by mkdir inside download_and_validate.
C9_Witness ==
  \E p \in Procs :
    /\ frontend[p] = "ui" /\ pc[p] = "done"
    /\ url[p] = "u" /\ out_dir[p] = "d" /\ destDir0 = "file"
    /\ result[p] = "mkdir_raised"

\* C10: two concurrent invocations never accept the same final path, and
\* every accepted path holds the file the invocation moved there.
C10_NoLostFile ==
  /\ \A p, q \in Procs :
       p # q => Range(accepted[p]) \cap Range(accepted[q]) = {}
  /\ \A p \in Procs :
       \A k \in 1..Len(accepted[p]) :
         destFiles[accepted[p][k]] = acceptedFrom[p][k]

=============================================================================
